---- MODULE Spec2Model ----
(***************************************************************************)
(* Model of the network library: Node / Network (node.py, network.py),     *)
(* RandomNetwork (network_random.py), ScaleFreeNetwork                     *)
(* (network_scale_free.py), cumulative / KS_dist (tools.py) and the        *)
(* reading loop of BioGRIDReader (bioGRID.py).                             *)
(*                                                                         *)
(* A network is the dictionary `nodes` (here: the set of identifiers that  *)
(* are keys of the dictionary) and, per node, its `neighbour_nodes` set    *)
(* (here: adj[v], a set of identifiers; Node equality and hashing are by   *)
(* identifier, node.py:31-64).                                             *)
(***************************************************************************)
EXTENDS Integers, Sequences, FiniteSets, TLC

VARIABLES
    nodes,              \* Network.nodes: identifiers present in the network
    adj,                \* adj[v] = Node.neighbour_nodes of the node v
    undirected,         \* Network.undirected
    allow_self_edges,   \* Network.allow_self_edges
    op,                 \* last call made: [name, a, b, error]
    before,             \* nodes and adjacency just before the last call
    pc,                 \* position of the running constructor
    n_nodes,            \* constructor argument n_nodes
    n_edges,            \* RandomNetwork argument n_edges (limbs, see Big)
    established,        \* RandomNetwork: edges established by the loop
    n_edges_per_iteration, \* ScaleFreeNetwork argument
    i,                  \* ScaleFreeNetwork: growth step index
    new_node,           \* ScaleFreeNetwork: identifier of the step's node
    prob_connect,       \* ScaleFreeNetwork: weights computed for the step
    m_edges,            \* ScaleFreeNetwork: edges to establish in the step
    connected_count,    \* ScaleFreeNetwork: edges established in the step
    result,             \* value returned by the last edge_exists / KS_dist call
    direct,             \* TRUE once a call made on a Node directly changed a set
    histogram_a,        \* KS_dist argument
    histogram_b,        \* KS_dist argument
    networks,           \* BioGRIDReader.networks: taxon |-> network
    records,            \* BioGRIDReader: the data lines of the file
    lines_read          \* BioGRIDReader: number of data lines read so far

vars == <<nodes, adj, undirected, allow_self_edges, op, before, pc, n_nodes,
          n_edges, established, n_edges_per_iteration, i, new_node,
          prob_connect, m_edges, connected_count, result, direct,
          histogram_a, histogram_b, networks, records, lines_read>>

netVars == <<nodes, adj, undirected, allow_self_edges>>
randVars == <<n_edges, established>>
sfVars == <<n_edges_per_iteration, i, new_node, prob_connect, m_edges,
            connected_count>>
toolVars == <<histogram_a, histogram_b>>
readerVars == <<networks, records, lines_read>>

(***************************************************************************)
(* Bounds of the model.                                                    *)
(***************************************************************************)
\* identifiers used by the calls on a Network are 0..MaxId
MaxId == 1
\* RandomNetwork arguments: n_nodes in -1..MaxN, n_edges in -1..MaxM
MaxN == 4
MaxM == 7
\* ScaleFreeNetwork arguments: n_nodes in -1..MaxSeed, per-step edges -1..MaxPer
MaxSeed == 3
MaxPer == 3
\* KS_dist arguments: lists of at most MaxLen entries, each in 0..MaxCount
MaxLen == 3
MaxCount == 2
\* BioGRIDReader input: at most MaxRecords data lines, taxa 1..MaxTaxon
MaxRecords == 2
MaxTaxon == 2
MaxSize == 6

Ids == 0 .. MaxId
NoArg == 0 - 1

Min(x, y) == IF x < y THEN x ELSE y
Abs(x) == IF x < 0 THEN 0 - x ELSE x
\* max() of a non-empty set of integers
MaxOf(S) == CHOOSE x \in S : \A y \in S : y <= x

(***************************************************************************)
(* Results of a call.  The code raises ValueError or KeyError with a       *)
(* message; the kind of the failure is kept here under the name the        *)
(* documentation uses for it.                                              *)
(***************************************************************************)
OK == "none"
DuplicateNodeError == "DuplicateNodeError"            \* ValueError, network.py:84
NodeNotFoundError == "NodeNotFoundError"              \* KeyError,   network.py:104
SelfEdgeNotAllowedError == "SelfEdgeNotAllowedError"  \* ValueError, network.py:149
DuplicateEdgeError == "DuplicateEdgeError"            \* ValueError, node.py:74
MissingEdgeError == "MissingEdgeError"                \* ValueError, node.py:85
InvalidParameterError == "InvalidParameterError"      \* ValueError, network_random.py:32-43
SampleError == "SampleError"                          \* ValueError raised by random.sample
EmptyInputError == "EmptyInputError"                  \* ValueError, tools.py:117-118
MissingMethodError == "MissingMethodError"            \* AttributeError, bioGRID.py:40

PyException(kind) ==
    IF kind = NodeNotFoundError THEN "KeyError"
    ELSE IF kind = MissingMethodError THEN "AttributeError"
    ELSE IF kind = OK THEN "none" ELSE "ValueError"

(***************************************************************************)
(* Node (node.py)                                                          *)
(***************************************************************************)
\* Node.has_edge_to: node in self.neighbour_nodes
has_edge_to(A, v, w) == w \in A[v]

\* Node.degree: len(self.neighbour_nodes)
degree(A, v) == Cardinality(A[v])

\* Node.add_edge: raises if the edge exists, otherwise adds w to v's set.
\* Only v's set changes.
Node_add_edge(A, v, w) ==
    IF has_edge_to(A, v, w)
    THEN [error |-> DuplicateEdgeError, adj |-> A]
    ELSE [error |-> OK, adj |-> [A EXCEPT ![v] = @ \cup {w}]]

\* Node.remove_edge: raises if the edge is absent, otherwise discards w.
Node_remove_edge(A, v, w) ==
    IF ~has_edge_to(A, v, w)
    THEN [error |-> MissingEdgeError, adj |-> A]
    ELSE [error |-> OK, adj |-> [A EXCEPT ![v] = @ \ {w}]]

(***************************************************************************)
(* Network (network.py).  A network value G is a record                    *)
(* [nodes, adj, undirected, allow_self_edges]; a mutation returns the      *)
(* raised error (or OK) and the network it leaves behind.                  *)
(***************************************************************************)
Self == [nodes |-> nodes, adj |-> adj, undirected |-> undirected,
         allow_self_edges |-> allow_self_edges]

\* Network.__init__: an empty network with the two flags
Network_init(u, s) ==
    [nodes |-> {}, adj |-> << >>, undirected |-> u, allow_self_edges |-> s]

\* Network.size
size(G) == Cardinality(G.nodes)

\* sum of node.degree() over a set of nodes (the loop of number_edges)
RECURSIVE SumDegrees(_, _)
SumDegrees(A, S) ==
    IF S = {} THEN 0
    ELSE LET v == CHOOSE x \in S : TRUE
         IN  degree(A, v) + SumDegrees(A, S \ {v})

\* Network.number_edges: the degree sum, halved (floor) when undirected
number_edges(G) ==
    LET count == SumDegrees(G.adj, G.nodes)
    IN  IF ~G.undirected THEN count ELSE count \div 2

\* Network.add_node with a fresh Node(identifier) (no neighbours yet)
Network_add_node(G, id) ==
    IF id \in G.nodes
    THEN [error |-> DuplicateNodeError, G |-> G]
    ELSE [error |-> OK,
          G |-> [G EXCEPT !.nodes = @ \cup {id},
                          !.adj = [v \in G.nodes \cup {id} |->
                                     IF v = id THEN {} ELSE G.adj[v]]]]

\* Network.has_node
has_node(G, id) == id \in G.nodes

\* edge_exists as it would be when testing node_1.has_edge_to(node_2) only
edge_exists_forward(G, a, b) == has_edge_to(G.adj, a, b)

\* Network.edge_exists for two nodes of the network
edge_exists(G, a, b) ==
    IF G.undirected
    THEN has_edge_to(G.adj, a, b) /\ has_edge_to(G.adj, b, a)
    ELSE has_edge_to(G.adj, a, b)

\* add_edge as it would be without the symmetric insertion
Network_add_edge_oneway(G, a, b) ==
    IF a \notin G.nodes \/ b \notin G.nodes
    THEN [error |-> NodeNotFoundError, G |-> G]
    ELSE IF a = b /\ ~G.allow_self_edges
    THEN [error |-> SelfEdgeNotAllowedError, G |-> G]
    ELSE LET first == Node_add_edge(G.adj, a, b)
         IN  IF first.error /= OK
             THEN [error |-> first.error, G |-> G]
             ELSE [error |-> OK, G |-> [G EXCEPT !.adj = first.adj]]

\* add_edge as it would be without the self-edge check
Network_add_edge_nocheck(G, a, b) ==
    IF a \notin G.nodes \/ b \notin G.nodes
    THEN [error |-> NodeNotFoundError, G |-> G]
    ELSE LET first == Node_add_edge(G.adj, a, b)
         IN  IF first.error /= OK
             THEN [error |-> first.error, G |-> G]
             ELSE IF G.undirected /\ a /= b
             THEN LET second == Node_add_edge(first.adj, b, a)
                  IN  [error |-> second.error,
                       G |-> [G EXCEPT !.adj = second.adj]]
             ELSE [error |-> OK, G |-> [G EXCEPT !.adj = first.adj]]

\* add_edge as it would be with the self-edge check made after the first
\* insertion
Network_add_edge_latecheck(G, a, b) ==
    IF a \notin G.nodes \/ b \notin G.nodes
    THEN [error |-> NodeNotFoundError, G |-> G]
    ELSE LET first == Node_add_edge(G.adj, a, b)
         IN  IF first.error /= OK
             THEN [error |-> first.error, G |-> G]
             ELSE IF a = b /\ ~G.allow_self_edges
             THEN [error |-> SelfEdgeNotAllowedError,
                   G |-> [G EXCEPT !.adj = first.adj]]
             ELSE IF G.undirected /\ a /= b
             THEN LET second == Node_add_edge(first.adj, b, a)
                  IN  [error |-> second.error,
                       G |-> [G EXCEPT !.adj = second.adj]]
             ELSE [error |-> OK, G |-> [G EXCEPT !.adj = first.adj]]

\* add_edge as it would be with the first insertion undone when the second
\* raises
Network_add_edge_rollback(G, a, b) ==
    IF a \notin G.nodes \/ b \notin G.nodes
    THEN [error |-> NodeNotFoundError, G |-> G]
    ELSE IF a = b /\ ~G.allow_self_edges
    THEN [error |-> SelfEdgeNotAllowedError, G |-> G]
    ELSE LET first == Node_add_edge(G.adj, a, b)
         IN  IF first.error /= OK
             THEN [error |-> first.error, G |-> G]
             ELSE IF G.undirected /\ a /= b
             THEN LET second == Node_add_edge(first.adj, b, a)
                  IN  IF second.error /= OK
                      THEN [error |-> second.error, G |-> G]
                      ELSE [error |-> OK, G |-> [G EXCEPT !.adj = second.adj]]
             ELSE [error |-> OK, G |-> [G EXCEPT !.adj = first.adj]]

\* Network.add_edge: resolve both nodes, refuse a forbidden self-edge, add
\* a --> b, then (undirected, a /= b) add b --> a.  The first insertion is
\* kept when the second raises.
Network_add_edge(G, a, b) ==
    IF a \notin G.nodes \/ b \notin G.nodes
    THEN [error |-> NodeNotFoundError, G |-> G]
    ELSE IF a = b /\ ~G.allow_self_edges
    THEN [error |-> SelfEdgeNotAllowedError, G |-> G]
    ELSE LET first == Node_add_edge(G.adj, a, b)
         IN  IF first.error /= OK
             THEN [error |-> first.error, G |-> G]
             ELSE IF G.undirected /\ a /= b
             THEN LET second == Node_add_edge(first.adj, b, a)
                  IN  [error |-> second.error,
                       G |-> [G EXCEPT !.adj = second.adj]]
             ELSE [error |-> OK, G |-> [G EXCEPT !.adj = first.adj]]

\* remove_edge as it would be without the symmetric removal
Network_remove_edge_oneway(G, a, b) ==
    IF a \notin G.nodes \/ b \notin G.nodes
    THEN [error |-> NodeNotFoundError, G |-> G]
    ELSE LET first == Node_remove_edge(G.adj, a, b)
         IN  IF first.error /= OK
             THEN [error |-> first.error, G |-> G]
             ELSE [error |-> OK, G |-> [G EXCEPT !.adj = first.adj]]

\* Network.remove_edge: resolve both nodes, remove a --> b, then
\* (undirected, a /= b) remove b --> a.
Network_remove_edge(G, a, b) ==
    IF a \notin G.nodes \/ b \notin G.nodes
    THEN [error |-> NodeNotFoundError, G |-> G]
    ELSE LET first == Node_remove_edge(G.adj, a, b)
         IN  IF first.error /= OK
             THEN [error |-> first.error, G |-> G]
             ELSE IF G.undirected /\ a /= b
             THEN LET second == Node_remove_edge(first.adj, b, a)
                  IN  [error |-> second.error,
                       G |-> [G EXCEPT !.adj = second.adj]]
             ELSE [error |-> OK, G |-> [G EXCEPT !.adj = first.adj]]

\* Network.max_degree: max(..., default=0)
max_degree(G) ==
    IF G.nodes = {} THEN 0
    ELSE CHOOSE d \in {degree(G.adj, v) : v \in G.nodes} :
             \A v \in G.nodes : degree(G.adj, v) <= d

\* the counting loop of degree_histogram: histogram[node.degree()] += 1
\* (list index k is position k + 1 of the sequence)
RECURSIVE CountDegrees(_, _, _)
CountDegrees(histogram, A, S) ==
    IF S = {} THEN histogram
    ELSE LET v == CHOOSE x \in S : TRUE
         IN  CountDegrees([histogram EXCEPT ![degree(A, v) + 1] = @ + 1],
                          A, S \ {v})

\* degree_histogram as it would be with [0] * max_degree()
degree_histogram_short(G) ==
    CountDegrees([k \in 1 .. max_degree(G) |-> 0], G.adj, G.nodes)

\* Network.degree_histogram: [0] * (max_degree() + 1), then the counting loop
degree_histogram(G) ==
    CountDegrees([k \in 1 .. (max_degree(G) + 1) |-> 0], G.adj, G.nodes)

(***************************************************************************)
(* Python floats (IEEE doubles, 53 significant bits, round to nearest,     *)
(* ties to even) of the range the degree statistics use: 0 and the values  *)
(* from 2^-4 to 2.  A double of this range is a whole number of units of   *)
(* 2^-56 and is kept as <<hi, lo>>, standing for hi * 2^28 + lo units; 1.0 *)
(* is <<2^28, 0>>.                                                         *)
(***************************************************************************)
FloatLimb == 2 ^ 28
FloatOne == <<FloatLimb, 0>>
FloatZero == <<0, 0>>

\* the distance between neighbouring doubles around hi * 2^28 units, in units
FloatUlp(hi) ==
    IF hi >= FloatLimb THEN 16
    ELSE IF hi >= FloatLimb \div 2 THEN 8
    ELSE IF hi >= FloatLimb \div 4 THEN 4
    ELSE IF hi >= FloatLimb \div 8 THEN 2
    ELSE 1

\* the double nearest to hi * 2^28 + lo + r / s units (0 <= r < s), ties to
\* the double whose last bit is 0
float_round(hi, lo, r, s) ==
    LET ulp  == FloatUlp(hi)
        rest == lo % ulp
        down == lo - rest
        up   == \/ 2 * (rest * s + r) > ulp * s
                \/ /\ 2 * (rest * s + r) = ulp * s
                   /\ (lo \div ulp) % 2 = 1
        l    == IF up THEN down + ulp ELSE down
    IN  <<hi + (l \div FloatLimb), l % FloatLimb>>

\* the whole part q and the remainder r of r0 * 2^k / s, one bit at a time
RECURSIVE ShiftDiv(_, _, _)
ShiftDiv(r0, s, k) ==
    IF k = 0 THEN [q |-> 0, r |-> r0]
    ELSE LET p == ShiftDiv(r0, s, k - 1)
         IN  [q |-> 2 * p.q + ((2 * p.r) \div s), r |-> (2 * p.r) % s]

\* c / s in Python for integers 0 <= c <= s, s > 0, c = 0 or s <= 16 * c
float_div(c, s) ==
    LET h == ShiftDiv(c % s, s, 28)
        l == ShiftDiv(h.r, s, 28)
    IN  float_round((c \div s) * FloatLimb + h.q, l.q, l.r, s)

\* x + y in Python for two floats of the range
float_add(x, y) ==
    LET l == x[2] + y[2]
    IN  float_round(x[1] + y[1] + (l \div FloatLimb), l % FloatLimb, 0, 1)

\* sum(xs) in Python: 0 + xs[0] + xs[1] + ... from left to right
RECURSIVE float_sum(_)
float_sum(xs) ==
    IF xs = << >> THEN FloatZero
    ELSE float_add(float_sum(SubSeq(xs, 1, Len(xs) - 1)), xs[Len(xs)])

\* x <= y, and x + d for a small whole number d of units
FloatLeq(x, y) == x[1] < y[1] \/ (x[1] = y[1] /\ x[2] <= y[2])
FloatPlus(x, d) == <<x[1] + ((x[2] + d) \div FloatLimb), (x[2] + d) % FloatLimb>>

\* |x - y| <= d units
FloatWithin(x, y, d) ==
    /\ FloatLeq(x, FloatPlus(y, d))
    /\ FloatLeq(y, FloatPlus(x, d))

\* normalized_degree_distribution as it would be when dividing by the
\* largest count instead of size()
normalized_degree_distribution_bymax(G) ==
    IF size(G) = 0 THEN <<FloatOne>>
    ELSE LET histogram == degree_histogram(G)
         IN  [k \in 1 .. Len(histogram) |->
                 float_div(histogram[k],
                           MaxOf({histogram[j] : j \in 1 .. Len(histogram)}))]

\* Network.normalized_degree_distribution: [1.0] when size() is 0, otherwise
\* the float degree_count / self.size() for every entry of
\* degree_histogram()
normalized_degree_distribution(G) ==
    IF size(G) = 0 THEN <<FloatOne>>
    ELSE LET histogram == degree_histogram(G)
         IN  [k \in 1 .. Len(histogram) |-> float_div(histogram[k], size(G))]

(***************************************************************************)
(* Calls on a Network object.                                              *)
(***************************************************************************)
Snapshot(G) == [nodes |-> G.nodes, adj |-> G.adj]

Commit(name, a, b, r) ==
    /\ nodes' = r.G.nodes
    /\ adj' = r.G.adj
    /\ undirected' = r.G.undirected
    /\ allow_self_edges' = r.G.allow_self_edges
    /\ op' = [name |-> name, a |-> a, b |-> b, error |-> r.error]
    /\ before' = Snapshot(Self)

AddNode(id) ==
    /\ pc = "api"
    /\ Commit("add_node", id, NoArg, Network_add_node(Self, id))
    /\ UNCHANGED <<pc, n_nodes, randVars, sfVars, result, direct, toolVars,
                   readerVars>>

AddEdge(a, b) ==
    /\ pc = "api"
    /\ Commit("add_edge", a, b, Network_add_edge(Self, a, b))
    /\ UNCHANGED <<pc, n_nodes, randVars, sfVars, result, direct, toolVars,
                   readerVars>>

RemoveEdge(a, b) ==
    /\ pc = "api"
    /\ Commit("remove_edge", a, b, Network_remove_edge(Self, a, b))
    /\ UNCHANGED <<pc, n_nodes, randVars, sfVars, result, direct, toolVars,
                   readerVars>>

NoOp == [name |-> "init", a |-> NoArg, b |-> NoArg, error |-> OK]

\* None: what a call without a return value leaves in `result`
NoResult == "None"

\* nothing queried, no histogram given, no file being read
InitIdle ==
    /\ result = NoResult
    /\ direct = FALSE
    /\ histogram_a = << >>
    /\ histogram_b = << >>
    /\ networks = << >>
    /\ records = << >>
    /\ lines_read = 0

\* Network(undirected, allow_self_edges): any of the four kinds, empty
Init ==
    /\ undirected \in BOOLEAN
    /\ allow_self_edges \in BOOLEAN
    /\ nodes = {}
    /\ adj = << >>
    /\ op = NoOp
    /\ before = [nodes |-> {}, adj |-> << >>]
    /\ pc = "api"
    /\ n_nodes = 0
    /\ n_edges = <<0, 0>>
    /\ established = 0
    /\ n_edges_per_iteration = 0
    /\ i = 0
    /\ new_node = NoArg
    /\ prob_connect = << >>
    /\ m_edges = 0
    /\ connected_count = 0
    /\ InitIdle

Next ==
    \/ \E id \in Ids : AddNode(id)
    \/ \E a, b \in Ids : AddEdge(a, b)
    \/ \E a, b \in Ids : RemoveEdge(a, b)

Spec == Init /\ [][Next]_vars

(***************************************************************************)
(* Calls on a Network object that build networks of up to MaxSize nodes:   *)
(* add_node with the next unused identifier and add_edge from a node to    *)
(* its successor.  With six nodes the quotients of                         *)
(* normalized_degree_distribution are sixths, which a float does not hold  *)
(* exactly.                                                                *)
(***************************************************************************)
NextDistribution ==
    \/ \E id \in {size(Self)} \cap (0 .. MaxSize - 1) : AddNode(id)
    \/ \E a \in 0 .. MaxSize - 2 : AddEdge(a, a + 1)

SpecDistribution == Init /\ [][NextDistribution]_vars

(***************************************************************************)
(* Calls on a Network object together with calls made on its Node objects  *)
(* directly (network.get_node(v).add_edge(network.get_node(w)), and the    *)
(* same with remove_edge), which change one neighbour set only.            *)
(***************************************************************************)
\* the call Network.edge_exists(a, b): get_node raises for a missing
\* endpoint (network.py:118-119), otherwise the test of lines 122-129
Network_edge_exists(G, a, b) ==
    IF a \notin G.nodes \/ b \notin G.nodes
    THEN [error |-> NodeNotFoundError, value |-> NoResult]
    ELSE [error |-> OK, value |-> edge_exists(G, a, b)]

EdgeExists(a, b) ==
    /\ pc = "api"
    /\ LET r == Network_edge_exists(Self, a, b)
       IN  /\ result' = r.value
           /\ op' = [name |-> "edge_exists", a |-> a, b |-> b,
                     error |-> r.error]
    /\ before' = Snapshot(Self)
    /\ UNCHANGED <<netVars, pc, n_nodes, randVars, sfVars, direct, toolVars,
                   readerVars>>

\* Node.add_edge called on the node v of the network with its node w
NodeAddEdge(v, w) ==
    /\ pc = "api"
    /\ v \in nodes /\ w \in nodes
    /\ LET r == Node_add_edge(adj, v, w)
       IN  /\ Commit("Node.add_edge", v, w,
                     [error |-> r.error, G |-> [Self EXCEPT !.adj = r.adj]])
           /\ direct' = (direct \/ r.error = OK)
    /\ UNCHANGED <<pc, n_nodes, randVars, sfVars, result, toolVars,
                   readerVars>>

\* Node.remove_edge called on the node v of the network with its node w
NodeRemoveEdge(v, w) ==
    /\ pc = "api"
    /\ v \in nodes /\ w \in nodes
    /\ LET r == Node_remove_edge(adj, v, w)
       IN  /\ Commit("Node.remove_edge", v, w,
                     [error |-> r.error, G |-> [Self EXCEPT !.adj = r.adj]])
           /\ direct' = (direct \/ r.error = OK)
    /\ UNCHANGED <<pc, n_nodes, randVars, sfVars, result, toolVars,
                   readerVars>>

NextNode ==
    \/ \E id \in Ids : AddNode(id)
    \/ \E a, b \in Ids : AddEdge(a, b)
    \/ \E a, b \in Ids : RemoveEdge(a, b)
    \/ \E v, w \in Ids : NodeAddEdge(v, w)
    \/ \E v, w \in Ids : NodeRemoveEdge(v, w)
    \/ \E a, b \in Ids : EdgeExists(a, b)

SpecNode == Init /\ [][NextNode]_vars

(***************************************************************************)
(* Arithmetic of RandomNetwork's parameter check.  Python integers are     *)
(* unbounded; n_edges and the products of the check are kept as two limbs  *)
(* <<hi, lo>> of value hi * Limb + lo with 0 <= lo < Limb.  The `/` of     *)
(* network_random.py:37 is Python's true division: its result is the       *)
(* IEEE-754 double nearest to the quotient (ties to even), which int()     *)
(* then truncates.                                                         *)
(***************************************************************************)
Limb == 2 ^ 27
HalfLimb == 2 ^ 14
\* a double carries 53 significant bits: integers below 2^53, i.e. with
\* hi < DoubleExactHi, are represented exactly
DoubleExactHi == 2 ^ 26

Big(x) == <<x \div Limb, x % Limb>>
BigLess(x, y) == x[1] < y[1] \/ (x[1] = y[1] /\ x[2] < y[2])
BigAdd(x, d) == <<x[1] + ((x[2] + d) \div Limb), (x[2] + d) % Limb>>

\* x * y for 0 <= x, y < 2^28
BigMul(x, y) ==
    LET x1 == x \div HalfLimb
        x0 == x % HalfLimb
        y1 == y \div HalfLimb
        y0 == y % HalfLimb
        cross == x1 * y0 + x0 * y1
        low == (cross % (HalfLimb \div 2)) * HalfLimb + x0 * y0
    IN  <<2 * (x1 * y1) + (cross \div (HalfLimb \div 2)) + (low \div Limb),
          low % Limb>>

\* floor(x / 2) for x >= 0
BigHalf(x) == <<x[1] \div 2, ((x[1] % 2) * Limb + x[2]) \div 2>>

\* spacing of the doubles around a value with high limb hi
RECURSIVE Quantum(_)
Quantum(hi) == IF hi < DoubleExactHi THEN 1 ELSE 2 * Quantum(hi \div 2)

\* float(x): the double nearest to the integer x >= 0, ties to even
RoundToDouble(x) ==
    LET q == Quantum(x[1])
        r == x[2] % q
        down == x[2] - r
    IN  IF 2 * r < q THEN <<x[1], down>>
        ELSE IF 2 * r > q THEN BigAdd(<<x[1], down>>, q)
        ELSE IF (down \div q) % 2 = 0 THEN <<x[1], down>>
        ELSE BigAdd(<<x[1], down>>, q)

\* the same, as it would be if the conversion were exact
ExactHalfProduct(n) == IF n = 0 THEN <<0, 0>> ELSE BigHalf(BigMul(n, n - 1))

\* network_random.py:37
\*   int((n_nodes * (n_nodes - 1)) / 2) if n_nodes else 0
\* a / 2 is float(a) scaled by 1/2 (exact), int() drops a fraction of .5
max_undirected_edges(n) ==
    IF n = 0 THEN <<0, 0>>
    ELSE BigHalf(RoundToDouble(BigMul(n, n - 1)))

\* the checks of network_random.py:30-41: TRUE iff a ValueError is raised
RN_rejects(n, m) ==
    \/ n < 0
    \/ BigLess(m, <<0, 0>>)
    \/ BigLess(max_undirected_edges(n), m)

\* the path RandomNetwork.__init__ takes through lines 30-57
RN_branch(n, m) ==
    IF RN_rejects(n, m) THEN "error"
    ELSE IF n = 0 THEN "empty"
    ELSE IF m = <<0, 0>> THEN "no_edges"
    ELSE IF m = max_undirected_edges(n) THEN "complete"
    ELSE "loop"

(***************************************************************************)
(* RandomNetwork.__init__ (network_random.py).                             *)
(***************************************************************************)
\* for i in range(n_nodes): self.add_node(Node(i)), from i = k on; a raised
\* error ends the loop
RECURSIVE AddNodes(_, _, _)
AddNodes(R, k, n) ==
    IF k >= n \/ R.error /= OK THEN R
    ELSE AddNodes(Network_add_node(R.G, k), k + 1, n)

\* the nested loops as they would be with range(i + 2, self.size())
RECURSIVE ConnectAll_skip(_, _, _, _)
ConnectAll_skip(R, a, b, n) ==
    IF a >= n \/ R.error /= OK THEN R
    ELSE IF b >= n THEN ConnectAll_skip(R, a + 1, a + 3, n)
    ELSE ConnectAll_skip(Network_add_edge(R.G, a, b), a, b + 1, n)

\* for i in range(size): for j in range(i + 1, size): self.add_edge(i, j),
\* from the pair (a, b) on; a raised error ends the loops
RECURSIVE ConnectAll(_, _, _, _)
ConnectAll(R, a, b, n) ==
    IF a >= n \/ R.error /= OK THEN R
    ELSE IF b >= n THEN ConnectAll(R, a + 1, a + 2, n)
    ELSE ConnectAll(Network_add_edge(R.G, a, b), a, b + 1, n)

\* RandomNetwork(n_nodes, n_edges) up to the first test of the while loop:
\* parameter checks, Network.__init__, the nodes, and the deterministic
\* complete network when n_edges is the maximum.
RN_Start ==
    /\ pc = "start"
    /\ LET br == RN_branch(n_nodes, n_edges)
           R0 == [error |-> OK, G |-> Network_init(TRUE, FALSE)]
           R1 == AddNodes(R0, 0, n_nodes)
           R  == IF br = "error"
                 THEN [error |-> InvalidParameterError, G |-> Self]
                 ELSE IF br = "empty" THEN R0
                 ELSE IF br = "complete"
                 THEN ConnectAll(R1, 0, 1, size(R1.G))
                 ELSE R1
       IN  /\ Commit("RandomNetwork", n_nodes, NoArg, R)
           /\ pc' = IF R.error /= OK THEN "error"
                    ELSE IF br = "loop" /\ BigLess(Big(0), n_edges) THEN "loop"
                    ELSE "done"
    /\ established' = 0
    /\ UNCHANGED <<n_nodes, n_edges, sfVars, result, direct, toolVars,
                   readerVars>>

\* one iteration of `while established < n_edges`: random.sample of two
\* nodes (it raises when there are fewer than two), `continue` when they
\* are connected, otherwise add_edge and count it; then the loop test.
RN_Iterate ==
    /\ pc = "loop"
    /\ BigLess(Big(established), n_edges)
    /\ UNCHANGED <<n_nodes, n_edges, sfVars, result, direct, toolVars,
                   readerVars>>
    /\ IF size(Self) < 2
       THEN /\ op' = [name |-> "sample", a |-> NoArg, b |-> NoArg,
                      error |-> SampleError]
            /\ before' = Snapshot(Self)
            /\ pc' = "error"
            /\ UNCHANGED <<netVars, established>>
       ELSE \E a, b \in nodes :
            /\ a /= b
            /\ IF edge_exists(Self, a, b)
               THEN /\ op' = [name |-> "draw_skip", a |-> a, b |-> b,
                              error |-> OK]
                    /\ before' = Snapshot(Self)
                    /\ UNCHANGED <<netVars, established, pc>>
               ELSE LET r == Network_add_edge(Self, a, b)
                    IN  /\ Commit("draw_add", a, b, r)
                        /\ IF r.error /= OK
                           THEN /\ pc' = "error"
                                /\ established' = established
                           ELSE /\ established' = established + 1
                                /\ pc' = IF BigLess(Big(established + 1), n_edges)
                                         THEN "loop" ELSE "done"

\* an iteration that establishes an edge
RN_Progress == RN_Iterate /\ established' = established + 1

\* the arguments tried: every (n_nodes, n_edges) of a small range
RandomInputs == (-1 .. MaxN) \X {Big(k) : k \in -1 .. MaxM}

\* no attribute of the network exists before Network.__init__ has run; the
\* model shows the object under construction as an empty network
InitCommon ==
    /\ nodes = {}
    /\ adj = << >>
    /\ undirected = TRUE
    /\ allow_self_edges = FALSE
    /\ op = NoOp
    /\ before = [nodes |-> {}, adj |-> << >>]
    /\ pc = "start"
    /\ established = 0
    /\ i = 0
    /\ new_node = NoArg
    /\ prob_connect = << >>
    /\ m_edges = 0
    /\ connected_count = 0

InitRandom ==
    /\ InitCommon
    /\ \E p \in RandomInputs : n_nodes = p[1] /\ n_edges = p[2]
    /\ n_edges_per_iteration = 0
    /\ InitIdle

NextRandom == RN_Start \/ RN_Iterate

SpecRandom == InitRandom /\ [][NextRandom]_vars

\* random.sample draws every pair with non-zero probability in every
\* iteration: a run cannot draw connected pairs for ever
SpecRandomFair == SpecRandom /\ WF_vars(RN_Progress)

(***************************************************************************)
(* RandomNetwork.__init__ with its parameter checks                        *)
(* (network_random.py:30-41) as a step of their own, on small arguments    *)
(* and on arguments around 2^27 nodes, where n_nodes * (n_nodes - 1)       *)
(* exceeds 2^53.  The model builds networks of at most MaxN nodes: an      *)
(* accepted call with more nodes is followed up to the end of the checks.  *)
(***************************************************************************)
LargeNs == {Limb + 2, Limb + 3}

ParamInputs ==
    RandomInputs
    \cup {<<n, BigAdd(ExactHalfProduct(n), d)>> : n \in LargeNs, d \in -1 .. 1}
    \cup (LargeNs \X {Big(k) : k \in -1 .. 1})

\* the checks of lines 30-41: a ValueError, or on to line 43 with nothing
\* built yet
RN_Validate ==
    /\ pc = "start"
    /\ pc' = IF RN_rejects(n_nodes, n_edges) THEN "error" ELSE "checked"
    /\ op' = [name |-> "RandomNetwork", a |-> n_nodes, b |-> NoArg,
              error |-> IF RN_rejects(n_nodes, n_edges)
                        THEN InvalidParameterError ELSE OK]
    /\ before' = Snapshot(Self)
    /\ UNCHANGED <<netVars, n_nodes, randVars, sfVars, result, direct,
                   toolVars, readerVars>>

\* lines 43-61 after the checks have passed: Network.__init__, the nodes,
\* the complete network when n_edges is the computed maximum, established = 0
\* and the first test of the while loop
RN_Build ==
    /\ pc = "checked"
    /\ n_nodes <= MaxN
    /\ LET br == RN_branch(n_nodes, n_edges)
           R0 == [error |-> OK, G |-> Network_init(TRUE, FALSE)]
           R1 == AddNodes(R0, 0, n_nodes)
           R  == IF br = "empty" THEN R0
                 ELSE IF br = "complete"
                 THEN ConnectAll(R1, 0, 1, size(R1.G))
                 ELSE R1
       IN  /\ Commit("build", n_nodes, NoArg, R)
           /\ pc' = IF R.error /= OK THEN "error"
                    ELSE IF br = "loop" /\ BigLess(Big(0), n_edges) THEN "loop"
                    ELSE "done"
    /\ established' = 0
    /\ UNCHANGED <<n_nodes, n_edges, sfVars, result, direct, toolVars,
                   readerVars>>

InitParams ==
    /\ InitCommon
    /\ \E p \in ParamInputs : n_nodes = p[1] /\ n_edges = p[2]
    /\ n_edges_per_iteration = 0
    /\ InitIdle

NextParams == RN_Validate \/ RN_Build \/ RN_Iterate

SpecParams == InitParams /\ [][NextParams]_vars

(***************************************************************************)
(* ScaleFreeNetwork (network_scale_free.py).  A weight is kept as the      *)
(* fraction <<numerator, denominator>> the code divides; random.choices    *)
(* can return exactly the keys whose weight is greater than zero.          *)
(***************************************************************************)
\* compute_probabilities as it would be with the uniform weights in every
\* step
compute_probabilities_uniform(G, new) ==
    [v \in G.nodes \ {new} |-> <<1, Cardinality(G.nodes)>>]

\* compute_probabilities as it would be without the degree_sum == 0 branch
compute_probabilities_nofallback(G, new) ==
    LET others == G.nodes \ {new}
        degree_sum == SumDegrees(G.adj, others)
    IN  [v \in others |-> <<degree(G.adj, v), degree_sum>>]

\* ScaleFreeNetwork.compute_probabilities
compute_probabilities(G, new) ==
    LET others == G.nodes \ {new}
        degree_sum == SumDegrees(G.adj, others)
    IN  IF degree_sum = 0
        THEN [v \in others |-> <<1, Cardinality(G.nodes)>>]
        ELSE [v \in others |-> <<degree(G.adj, v), degree_sum>>]

\* the step's edge count as it would be without the i + 1 cap
ScaleFree_m_edges_nocap(step, per) == per

\* the step's edge count as it would be with `if i <= n_edges_per_iteration`
ScaleFree_m_edges_le(step, per) == IF step <= per THEN step + 1 ELSE per

\* network_scale_free.py:36-39: i + 1 if i < n_edges_per_iteration, else
\* n_edges_per_iteration
ScaleFree_m_edges(step, per) == IF step < per THEN step + 1 ELSE per

\* the keys random.choices can return
Selectable(prob) == {v \in DOMAIN prob : prob[v][1] > 0}

\* the end of a growth step: next value of i, and whether the for loop goes on
ScaleFree_NextStep ==
    /\ i' = i + 1
    /\ pc' = IF i + 1 < n_nodes THEN "grow" ELSE "done"

\* ScaleFreeNetwork(n_nodes, n_edges_per_iteration) up to the growth loop:
\* parameter checks, Network.__init__, the n_nodes initial nodes
ScaleFree_Start ==
    /\ pc = "start"
    /\ LET bad == n_nodes < 0 \/ n_edges_per_iteration < 0
           R == IF bad
                THEN [error |-> InvalidParameterError, G |-> Self]
                ELSE AddNodes([error |-> OK, G |-> Network_init(TRUE, FALSE)],
                              0, n_nodes)
       IN  /\ Commit("ScaleFreeNetwork", n_nodes, n_edges_per_iteration, R)
           /\ pc' = IF R.error /= OK THEN "error"
                    ELSE IF 0 < n_nodes THEN "grow" ELSE "done"
    /\ UNCHANGED <<n_nodes, randVars, n_edges_per_iteration, i, new_node,
                   prob_connect, m_edges, connected_count, result, direct,
                   toolVars, readerVars>>

\* the head of growth step i: add Node(i + n_nodes), compute the weights,
\* fix the step's number of edges, and test `connected_count < m_edges`
ScaleFree_NewNode ==
    /\ pc = "grow"
    /\ LET id == i + n_nodes
           r == Network_add_node(Self, id)
           m == ScaleFree_m_edges(i, n_edges_per_iteration)
       IN  /\ Commit("add_node", id, NoArg, r)
           /\ new_node' = id
           /\ IF r.error /= OK
              THEN /\ pc' = "error"
                   /\ UNCHANGED <<i, prob_connect, m_edges, connected_count>>
              ELSE /\ prob_connect' = compute_probabilities(r.G, id)
                   /\ m_edges' = m
                   /\ connected_count' = 0
                   /\ IF 0 < m
                      THEN pc' = "attach" /\ i' = i
                      ELSE ScaleFree_NextStep
    /\ UNCHANGED <<n_nodes, randVars, n_edges_per_iteration, result, direct,
                   toolVars, readerVars>>

\* the iteration as it would be if the weights were computed again after
\* every added edge
ScaleFree_Choose_recompute ==
    /\ pc = "attach"
    /\ connected_count < m_edges
    /\ UNCHANGED <<n_nodes, randVars, n_edges_per_iteration, new_node,
                   m_edges, result, direct, toolVars, readerVars>>
    /\ IF Selectable(prob_connect) = {}
       THEN /\ op' = [name |-> "choose", a |-> new_node, b |-> NoArg,
                      error |-> SampleError]
            /\ before' = Snapshot(Self)
            /\ pc' = "error"
            /\ UNCHANGED <<netVars, i, connected_count, prob_connect>>
       ELSE \E existing_node \in Selectable(prob_connect) :
            IF existing_node /= new_node
                   /\ ~edge_exists(Self, new_node, existing_node)
            THEN LET r == Network_add_edge(Self, new_node, existing_node)
                 IN  /\ Commit("choose_add", new_node, existing_node, r)
                     /\ prob_connect' = compute_probabilities(r.G, new_node)
                     /\ IF r.error /= OK
                        THEN /\ pc' = "error"
                             /\ UNCHANGED <<i, connected_count>>
                        ELSE /\ connected_count' = connected_count + 1
                             /\ IF connected_count + 1 < m_edges
                                THEN pc' = "attach" /\ i' = i
                                ELSE ScaleFree_NextStep
            ELSE /\ op' = [name |-> "choose_skip", a |-> new_node,
                           b |-> existing_node, error |-> OK]
                 /\ before' = Snapshot(Self)
                 /\ UNCHANGED <<netVars, i, connected_count, pc,
                                prob_connect>>

\* one iteration of `while connected_count < m_edges`: random.choices picks
\* a key of non-zero weight (it raises when there is none); the edge is
\* added unless the key is the new node or already connected to it
ScaleFree_Choose ==
    /\ pc = "attach"
    /\ connected_count < m_edges
    /\ UNCHANGED <<n_nodes, randVars, n_edges_per_iteration, new_node,
                   prob_connect, m_edges, result, direct, toolVars,
                   readerVars>>
    /\ IF Selectable(prob_connect) = {}
       THEN /\ op' = [name |-> "choose", a |-> new_node, b |-> NoArg,
                      error |-> SampleError]
            /\ before' = Snapshot(Self)
            /\ pc' = "error"
            /\ UNCHANGED <<netVars, i, connected_count>>
       ELSE \E existing_node \in Selectable(prob_connect) :
            IF existing_node /= new_node
                   /\ ~edge_exists(Self, new_node, existing_node)
            THEN LET r == Network_add_edge(Self, new_node, existing_node)
                 IN  /\ Commit("choose_add", new_node, existing_node, r)
                     /\ IF r.error /= OK
                        THEN /\ pc' = "error"
                             /\ UNCHANGED <<i, connected_count>>
                        ELSE /\ connected_count' = connected_count + 1
                             /\ IF connected_count + 1 < m_edges
                                THEN pc' = "attach" /\ i' = i
                                ELSE ScaleFree_NextStep
            ELSE /\ op' = [name |-> "choose_skip", a |-> new_node,
                           b |-> existing_node, error |-> OK]
                 /\ before' = Snapshot(Self)
                 /\ UNCHANGED <<netVars, i, connected_count, pc>>

InitScaleFree ==
    /\ InitCommon
    /\ n_nodes \in -1 .. MaxSeed
    /\ n_edges_per_iteration \in -1 .. MaxPer
    /\ n_edges = <<0, 0>>
    /\ InitIdle

NextScaleFree == ScaleFree_Start \/ ScaleFree_NewNode \/ ScaleFree_Choose

SpecScaleFree == InitScaleFree /\ [][NextScaleFree]_vars

\* an iteration of the while loop that adds an edge
ScaleFree_Progress ==
    ScaleFree_Choose /\ connected_count' = connected_count + 1

\* the constructor runs on, and random.choices returns every key of
\* non-zero weight with non-zero probability in every iteration: a run
\* cannot draw the new node's neighbours for ever
SpecScaleFreeFair ==
    /\ SpecScaleFree
    /\ WF_vars(ScaleFree_Start)
    /\ WF_vars(ScaleFree_NewNode)
    /\ WF_vars(ScaleFree_Progress)

(***************************************************************************)
(* tools.py: cumulative and KS_dist, on lists of integers (sequence        *)
(* position k + 1 is list index k).                                        *)
(***************************************************************************)
\* the loop of cumulative: cumulative_sum += value, then append it
RECURSIVE cumulative_loop(_, _, _)
cumulative_loop(dist, cumulative_sum, cumulative_dist) ==
    IF dist = << >> THEN cumulative_dist
    ELSE cumulative_loop(Tail(dist), cumulative_sum + Head(dist),
                         Append(cumulative_dist, cumulative_sum + Head(dist)))

\* tools.cumulative
cumulative(dist) == cumulative_loop(dist, 0, << >>)

\* KS_dist as it would be without abs()
KS_dist_signed(a, b) ==
    IF a = << >> \/ b = << >>
    THEN [error |-> EmptyInputError, value |-> NoResult]
    ELSE LET cumulative_a == cumulative(a)
             cumulative_b == cumulative(b)
         IN  [error |-> OK,
              value |-> MaxOf({cumulative_a[k] - cumulative_b[k] :
                          k \in 1 .. Min(Len(cumulative_a), Len(cumulative_b))})]

\* tools.KS_dist: raises on an empty list, otherwise the largest
\* abs(cumulative_a[i] - cumulative_b[i]) over range(min of the lengths)
KS_dist(a, b) ==
    IF a = << >> \/ b = << >>
    THEN [error |-> EmptyInputError, value |-> NoResult]
    ELSE LET cumulative_a == cumulative(a)
             cumulative_b == cumulative(b)
         IN  [error |-> OK,
              value |-> MaxOf({Abs(cumulative_a[k] - cumulative_b[k]) :
                          k \in 1 .. Min(Len(cumulative_a), Len(cumulative_b))})]

\* the lists tried as histograms
Histograms == UNION {[1 .. n -> 0 .. MaxCount] : n \in 0 .. MaxLen}

\* one call KS_dist(histogram_a, histogram_b)
KS_Call ==
    /\ pc = "start"
    /\ LET r == KS_dist(histogram_a, histogram_b)
       IN  /\ result' = r.value
           /\ op' = [name |-> "KS_dist", a |-> NoArg, b |-> NoArg,
                     error |-> r.error]
           /\ pc' = IF r.error /= OK THEN "error" ELSE "done"
    /\ before' = Snapshot(Self)
    /\ UNCHANGED <<netVars, n_nodes, randVars, sfVars, direct, toolVars,
                   readerVars>>

InitTools ==
    /\ InitCommon
    /\ n_nodes = 0
    /\ n_edges = <<0, 0>>
    /\ n_edges_per_iteration = 0
    /\ result = NoResult
    /\ direct = FALSE
    /\ histogram_a \in Histograms
    /\ histogram_b \in Histograms
    /\ networks = << >>
    /\ records = << >>
    /\ lines_read = 0

NextTools == KS_Call

SpecTools == InitTools /\ [][NextTools]_vars

(***************************************************************************)
(* BioGRIDReader.__init__ (bioGRID.py:7-40).  A data line of the file is   *)
(* kept as the three fields the loop uses, <<taxon_id, interactor_A,       *)
(* interactor_B>> (fields 5, 7 and 8 of the line); the header line is      *)
(* skipped by the code and not part of `records`.                          *)
(***************************************************************************)
Records == (1 .. MaxTaxon) \X Ids \X Ids

\* the files tried: every sequence of at most MaxRecords data lines
RecordFiles == UNION {[1 .. n -> Records] : n \in 0 .. MaxRecords}

\* one iteration of `for line in file` (bioGRID.py:12-37): skip a
\* self-interaction; create the taxon's Network() if there is none; add each
\* interactor unless has_node; add_edge.  An error raised by add_node or
\* add_edge is not caught: it ends the constructor.
Reader_Record ==
    /\ pc = "read"
    /\ lines_read < Len(records)
    /\ lines_read' = lines_read + 1
    /\ LET line == records[lines_read + 1]
           taxon_id == line[1]
           interactor_A == line[2]
           interactor_B == line[3]
       IN  IF interactor_A = interactor_B
           THEN /\ op' = [name |-> "skip", a |-> interactor_A,
                          b |-> interactor_B, error |-> OK]
                /\ UNCHANGED <<networks, pc>>
           ELSE LET network == IF taxon_id \in DOMAIN networks
                               THEN networks[taxon_id]
                               ELSE Network_init(TRUE, FALSE)
                    r1 == IF has_node(network, interactor_A)
                          THEN [error |-> OK, G |-> network]
                          ELSE Network_add_node(network, interactor_A)
                    r2 == IF r1.error /= OK \/ has_node(r1.G, interactor_B)
                          THEN r1
                          ELSE Network_add_node(r1.G, interactor_B)
                    r3 == IF r2.error /= OK THEN r2
                          ELSE Network_add_edge(r2.G, interactor_A,
                                                interactor_B)
                IN  /\ networks' = [t \in DOMAIN networks \cup {taxon_id} |->
                                      IF t = taxon_id THEN r3.G
                                      ELSE networks[t]]
                    /\ op' = [name |-> "record", a |-> interactor_A,
                              b |-> interactor_B, error |-> r3.error]
                    /\ pc' = IF r3.error /= OK THEN "error" ELSE "read"
    /\ UNCHANGED <<netVars, before, n_nodes, randVars, sfVars, result, direct,
                   toolVars, records>>

\* after the last line: self.process_mapping_data() (bioGRID.py:40), a
\* method the class does not define
Reader_Finish ==
    /\ pc = "read"
    /\ lines_read = Len(records)
    /\ op' = [name |-> "process_mapping_data", a |-> NoArg, b |-> NoArg,
              error |-> MissingMethodError]
    /\ pc' = "error"
    /\ UNCHANGED <<netVars, before, n_nodes, randVars, sfVars, result, direct,
                   toolVars, readerVars>>

InitReader ==
    /\ nodes = {}
    /\ adj = << >>
    /\ undirected = TRUE
    /\ allow_self_edges = FALSE
    /\ op = NoOp
    /\ before = [nodes |-> {}, adj |-> << >>]
    /\ pc = "read"
    /\ n_nodes = 0
    /\ n_edges = <<0, 0>>
    /\ established = 0
    /\ n_edges_per_iteration = 0
    /\ i = 0
    /\ new_node = NoArg
    /\ prob_connect = << >>
    /\ m_edges = 0
    /\ connected_count = 0
    /\ result = NoResult
    /\ direct = FALSE
    /\ histogram_a = << >>
    /\ histogram_b = << >>
    /\ networks = << >>
    /\ records \in RecordFiles
    /\ lines_read = 0

NextReader == Reader_Record \/ Reader_Finish

SpecReader == InitReader /\ [][NextReader]_vars

(***************************************************************************)
(* Properties of the calls on a Network (specifications Spec and, for the  *)
(* degree distribution, SpecDistribution).                                 *)
(***************************************************************************)
\* the network as it was just before the last call
Before == [Self EXCEPT !.nodes = before.nodes, !.adj = before.adj]

RECURSIVE SumSeq(_)
SumSeq(s) == IF s = << >> THEN 0 ELSE Head(s) + SumSeq(Tail(s))

\* C1: in an undirected network, after any sequence of add_node, add_edge
\* and remove_edge calls (successful or rejected), for two distinct nodes A
\* and B: A has B as neighbour iff B has A as neighbour.
C1_SymmetricAdjacency ==
    undirected =>
        \A a, b \in nodes :
            a /= b => (has_edge_to(adj, a, b) <=> has_edge_to(adj, b, a))

\* C1 witness: an undirected network in which add_edge(a, b), a /= b, has
\* just succeeded
C1_Witness ==
    /\ undirected
    /\ op.name = "add_edge" /\ op.error = OK /\ op.a /= op.b
    /\ has_edge_to(adj, op.a, op.b)

\* C2: in a network that does not allow self-edges (directed or not), no
\* node is in its own neighbour set, and add_edge(a, a) on an existing node
\* is rejected with SelfEdgeNotAllowedError.
C2_NoSelfEdges ==
    ~allow_self_edges =>
        /\ \A v \in nodes : ~has_edge_to(adj, v, v)
        /\ (op.name = "add_edge" /\ op.a = op.b /\ op.a \in before.nodes)
               => op.error = SelfEdgeNotAllowedError

\* C2 witness: add_edge(a, a) was just rejected in such a network
C2_Witness ==
    /\ ~allow_self_edges
    /\ op.name = "add_edge" /\ op.a = op.b
    /\ op.error = SelfEdgeNotAllowedError

\* C3: in an undirected network every successful add_edge(a, b) makes
\* edge_exists(a, b) and edge_exists(b, a) true and increases number_edges()
\* by exactly 1.
C3_AddEdgeCountsOne ==
    (undirected /\ op.name = "add_edge" /\ op.error = OK) =>
        /\ edge_exists(Self, op.a, op.b)
        /\ edge_exists(Self, op.b, op.a)
        /\ number_edges(Self) = number_edges(Before) + 1

\* the edges of a network, as the documentation of number_edges counts
\* them: unordered pairs in an undirected network (a self-edge is the pair
\* {a}), ordered pairs in a directed one
EdgeSet(G) ==
    IF G.undirected
    THEN {{a, b} : <<a, b>> \in
             {e \in G.nodes \X G.nodes : has_edge_to(G.adj, e[1], e[2])}}
    ELSE {e \in G.nodes \X G.nodes : has_edge_to(G.adj, e[1], e[2])}

\* C4: number_edges() counts each undirected edge between distinct nodes
\* once, each directed edge once per direction and each self-edge exactly
\* once, in directed and undirected networks alike.
C4_EdgeCountExact == number_edges(Self) = Cardinality(EdgeSet(Self))

\* C5: degree_histogram() has length max_degree() + 1, its entry k is the
\* number of nodes of degree k, and its entries sum to size() (the empty
\* network, where max_degree() is 0, included).
C5_HistogramShape ==
    LET h == degree_histogram(Self)
    IN  /\ Len(h) = max_degree(Self) + 1
        /\ (nodes = {} => max_degree(Self) = 0)
        /\ \A k \in 0 .. max_degree(Self) :
               h[k + 1] = Cardinality({v \in nodes : degree(adj, v) = k})
        /\ SumSeq(h) = size(Self)

\* C5 witness: nodes of different degrees, the highest at least 1
C5_Witness ==
    /\ max_degree(Self) >= 1
    /\ \E v, w \in nodes : degree(adj, v) /= degree(adj, w)
    /\ op.name = "add_edge" /\ op.error = OK

\* C6: a rejected call leaves the nodes and every neighbour set unchanged,
\* and the calls that must be rejected are: add_node of an existing
\* identifier, add_edge with a missing endpoint, a forbidden self-edge or an
\* existing edge, remove_edge with a missing endpoint or a missing edge.
C6_RejectedUnchanged ==
    /\ op.error /= OK => Snapshot(Self) = before
    /\ (op.name = "add_node" /\ op.a \in before.nodes)
           => op.error = DuplicateNodeError
    /\ (op.name \in {"add_edge", "remove_edge"}
            /\ (op.a \notin before.nodes \/ op.b \notin before.nodes))
           => op.error = NodeNotFoundError
    /\ (op.name = "add_edge" /\ op.a \in before.nodes /\ op.b \in before.nodes)
           => /\ (op.a = op.b /\ ~allow_self_edges)
                     => op.error = SelfEdgeNotAllowedError
              /\ (~(op.a = op.b /\ ~allow_self_edges)
                     /\ edge_exists(Before, op.a, op.b))
                     => op.error = DuplicateEdgeError
    /\ (op.name = "remove_edge" /\ op.a \in before.nodes
            /\ op.b \in before.nodes /\ ~edge_exists(Before, op.a, op.b))
           => op.error = MissingEdgeError

\* C6 witness: an undirected network with an edge, on which add_edge of that
\* edge was just rejected
C6_Witness ==
    /\ undirected
    /\ op.name = "add_edge" /\ op.error = DuplicateEdgeError
    /\ op.a /= op.b
    /\ has_edge_to(adj, op.a, op.b)

\* C13 as stated: normalized_degree_distribution() is [1.0] on the empty
\* network; on a non-empty network it has max_degree() + 1 entries, entry k
\* being the number of nodes of degree k divided by size(), and the entries
\* sum to 1 (sum() of the returned list is 1.0); a network of one isolated
\* node gives [1.0].
C13_SumsToOne ==
    LET nd == normalized_degree_distribution(Self)
    IN  /\ nodes = {} => nd = <<FloatOne>>
        /\ nodes /= {} =>
               /\ Len(nd) = max_degree(Self) + 1
               /\ \A k \in 0 .. max_degree(Self) :
                      nd[k + 1] = float_div(Cardinality({v \in nodes :
                                                degree(adj, v) = k}),
                                            size(Self))
               /\ float_sum(nd) = FloatOne
        /\ (size(Self) = 1 /\ max_degree(Self) = 0) => nd = <<FloatOne>>

\* C13, amended: normalized_degree_distribution() is [1.0] on the empty
\* network; on a non-empty network it has max_degree() + 1 entries, entry k
\* being the float quotient of the number of nodes of degree k and size(),
\* and the entries sum to 1 up to rounding: sum() of the returned list is
\* 1.0 for networks of fewer than six nodes and differs from 1.0 by at most
\* 2^-53 (8 units of 2^-56) per entry in general; a network of one isolated
\* node gives [1.0].
C13_NormalizedDistribution ==
    LET nd == normalized_degree_distribution(Self)
    IN  /\ nodes = {} => nd = <<FloatOne>>
        /\ nodes /= {} =>
               /\ Len(nd) = max_degree(Self) + 1
               /\ \A k \in 0 .. max_degree(Self) :
                      nd[k + 1] = float_div(Cardinality({v \in nodes :
                                                degree(adj, v) = k}),
                                            size(Self))
               /\ FloatWithin(float_sum(nd), FloatOne, 8 * Len(nd))
               /\ size(Self) < 6 => float_sum(nd) = FloatOne
        /\ (size(Self) = 1 /\ max_degree(Self) = 0) => nd = <<FloatOne>>

\* C13 witness: after a successful add_edge, a network of six nodes with
\* nodes of different degrees whose distribution does not sum to 1.0
C13_Witness ==
    /\ op.name = "add_edge" /\ op.error = OK
    /\ size(Self) = 6
    /\ \E v, w \in nodes : degree(adj, v) = 0 /\ degree(adj, w) >= 1
    /\ float_sum(normalized_degree_distribution(Self)) /= FloatOne

\* C15: remove_edge(a, b) on two nodes of the network that are not
\* connected raises MissingEdgeError and changes nothing; and in every state
\* reached by add_node / add_edge / remove_edge calls, when the last call
\* was a successful add_edge(a, b) and the next call is remove_edge(a, b),
\* that call succeeds and the neighbour sets, number_edges() and
\* degree_histogram() are again those from before the add_edge.
C15_RemoveMirrorsAdd ==
    [][/\ \A a, b \in nodes :
              (RemoveEdge(a, b) /\ ~edge_exists(Self, a, b)) =>
                  /\ op'.error = MissingEdgeError
                  /\ UNCHANGED netVars
       /\ (op.name = "add_edge" /\ op.error = OK /\ RemoveEdge(op.a, op.b)) =>
              /\ op'.error = OK
              /\ nodes' = before.nodes
              /\ adj' = before.adj
              /\ number_edges(Self') = number_edges(Before)
              /\ degree_histogram(Self') = degree_histogram(Before)
      ]_vars

\* C15 witness: in an undirected network remove_edge(a, b), a /= b, has just
\* succeeded and taken b out of a's neighbours and a out of b's
C15_Witness ==
    /\ undirected
    /\ op.name = "remove_edge" /\ op.error = OK /\ op.a /= op.b
    /\ has_edge_to(before.adj, op.a, op.b)
    /\ has_edge_to(before.adj, op.b, op.a)
    /\ ~has_edge_to(adj, op.a, op.b) /\ ~has_edge_to(adj, op.b, op.a)
    /\ number_edges(Self) = number_edges(Before) - 1

(***************************************************************************)
(* Properties of the calls on a Network whose nodes are also changed       *)
(* directly (specification SpecNode).                                      *)
(***************************************************************************)
\* C14: edge_exists(a, b) raises NodeNotFoundError iff an endpoint is not
\* in the network and never changes the network; otherwise it returns, in
\* an undirected network, whether b is a neighbour of a and a is a
\* neighbour of b, and in a directed network whether b is a neighbour of a
\* (whatever the neighbours of b).
C14_EdgeExists ==
    op.name = "edge_exists" =>
        /\ Snapshot(Self) = before
        /\ (op.error = NodeNotFoundError)
               <=> (op.a \notin nodes \/ op.b \notin nodes)
        /\ op.error \in {OK, NodeNotFoundError}
        /\ op.error = OK =>
               /\ result \in BOOLEAN
               /\ undirected =>
                      (result <=> (op.b \in adj[op.a] /\ op.a \in adj[op.b]))
               /\ ~undirected => (result <=> op.b \in adj[op.a])

\* C14 witness: an undirected network in which b is a neighbour of a but a
\* is not a neighbour of b, and edge_exists(a, b) has returned False
C14_Witness ==
    /\ undirected
    /\ op.name = "edge_exists" /\ op.error = OK
    /\ has_edge_to(adj, op.a, op.b) /\ ~has_edge_to(adj, op.b, op.a)
    /\ result = FALSE

\* C19: in an undirected network, add_edge(a, b) on two distinct nodes of
\* which b has a as neighbour and a does not have b (a state made by a
\* direct Node.add_edge or Node.remove_edge call) raises DuplicateEdgeError and leaves b added
\* to a's neighbours, nothing else changed; as long as no call made on a
\* Node directly has changed a neighbour set, no add_edge fails in its
\* second insertion (after its first one succeeded).
C19_NoRollback ==
    /\ (/\ undirected
        /\ op.name = "add_edge" /\ op.a /= op.b
        /\ op.a \in before.nodes /\ op.b \in before.nodes
        /\ has_edge_to(before.adj, op.b, op.a)
        /\ ~has_edge_to(before.adj, op.a, op.b)) =>
           /\ op.error = DuplicateEdgeError
           /\ nodes = before.nodes
           /\ adj = [before.adj EXCEPT ![op.a] = @ \cup {op.b}]
    /\ ~direct =>
           ~(/\ op.name = "add_edge" /\ op.error = DuplicateEdgeError
             /\ ~has_edge_to(before.adj, op.a, op.b))

\* C19 witness: after a direct Node.add_edge, an undirected add_edge(a, b)
\* has failed with DuplicateEdgeError and a has b as a new neighbour
C19_Witness ==
    /\ undirected /\ direct
    /\ op.name = "add_edge" /\ op.error = DuplicateEdgeError
    /\ op.a /= op.b
    /\ ~has_edge_to(before.adj, op.a, op.b)
    /\ has_edge_to(adj, op.a, op.b)

C7_CompleteReached ==
    /\ pc = "done" /\ op.name = "RandomNetwork" /\ n_nodes >= 3
    /\ n_edges = ExactHalfProduct(n_nodes)

\* C8: RandomNetwork(n, m) raises, before any node or edge is created,
\* whenever n < 0, m < 0 or m > n(n-1)/2, and never for any other (n, m).
C8_RejectsExactly ==
    pc /= "start" =>
        /\ (op.error = InvalidParameterError) <=>
               (\/ n_nodes < 0
                \/ BigLess(n_edges, <<0, 0>>)
                \/ BigLess(ExactHalfProduct(n_nodes), n_edges))
        /\ op.error = InvalidParameterError => nodes = {}

\* C9 (entry condition): the sampling loop is only entered when at least
\* two nodes exist and m is strictly below n(n-1)/2: so it is in every
\* state in the loop, and for every accepted call whose arguments lead the
\* tests of lines 45-55 to the loop.
C9_LoopEntry ==
    \/ pc = "loop"
    \/ (pc = "checked" /\ RN_branch(n_nodes, n_edges) = "loop")
    => /\ n_nodes >= 2
       /\ BigLess(n_edges, ExactHalfProduct(n_nodes))

\* C9 (progress is possible): in every loop state with fewer than m edges
\* an unconnected pair of distinct nodes exists.
C9_PairAvailable ==
    (pc = "loop" /\ BigLess(Big(number_edges(Self)), n_edges)) =>
        \E a, b \in nodes : a /= b /\ ~edge_exists(Self, a, b)

\* C9 (termination): under fair pair selection a run that is in the loop
\* reaches exactly m edges and stops.
C9_LoopTerminates ==
    (pc = "loop") ~> (pc = "done" /\ Big(number_edges(Self)) = n_edges)
(***************************************************************************)
(* Properties of ScaleFreeNetwork (specification SpecScaleFree).  In the   *)
(* model i is the index of the next growth step: steps 0 .. i-1 are        *)
(* complete.                                                               *)
(***************************************************************************)
RECURSIVE SumMin(_, _)
SumMin(n, m) == IF n <= 0 THEN 0 ELSE Min(m, n) + SumMin(n - 1, m)

\* C10: for n >= 0, m >= 0 no run raises, a completed run has performed
\* exactly n growth steps, step k added node n + k and connected it to
\* exactly min(m, k + 1) distinct nodes that existed before the step (not to
\* itself), so the final network has the nodes 0 .. 2n-1 and
\* sum over k of min(m, k + 1) edges.
C10_GrowthResult ==
    /\ pc = "error" => (n_nodes < 0 \/ n_edges_per_iteration < 0)
    /\ pc \in {"grow", "attach", "done"} =>
           \A k \in 0 .. (i - 1) :
               /\ (n_nodes + k) \in nodes
               /\ ~has_edge_to(adj, n_nodes + k, n_nodes + k)
               /\ adj[n_nodes + k] \subseteq nodes
               /\ Cardinality({v \in adj[n_nodes + k] : v < n_nodes + k})
                      = Min(n_edges_per_iteration, k + 1)
    /\ pc = "attach" =>
           /\ new_node = n_nodes + i
           /\ Cardinality(adj[new_node]) = connected_count
           /\ adj[new_node] \subseteq 0 .. (new_node - 1)
    /\ pc = "done" =>
           /\ i = n_nodes
           /\ nodes = 0 .. (2 * n_nodes - 1)
           /\ number_edges(Self) = SumMin(n_nodes, n_edges_per_iteration)
           /\ Cardinality(EdgeSet(Self)) = SumMin(n_nodes, n_edges_per_iteration)

\* C10 witness: a completed run of at least three steps, of which the first
\* was capped below m and the last was not
C10_Witness ==
    /\ pc = "done" /\ n_nodes >= 3 /\ n_edges_per_iteration = 2
    /\ op.name = "choose_add"

\* C11: when the degrees of all nodes other than the new node sum to zero at
\* the start of a growth step, the candidates are exactly the nodes other
\* than the new node and all have one and the same weight, greater than
\* zero; and ScaleFreeNetwork(1, 1) always ends with the nodes 0 and 1 and
\* the single edge 1 -- 0.
C11_UniformFallback ==
    /\ (op.name = "add_node" /\ op.error = OK
            /\ SumDegrees(adj, nodes \ {new_node}) = 0) =>
           /\ DOMAIN prob_connect = nodes \ {new_node}
           /\ \A v \in DOMAIN prob_connect :
                  /\ prob_connect[v][1] > 0 /\ prob_connect[v][2] > 0
                  /\ \A w \in DOMAIN prob_connect :
                         prob_connect[v] = prob_connect[w]
           /\ Selectable(prob_connect) = nodes \ {new_node}
    /\ (n_nodes = 1 /\ n_edges_per_iteration = 1) =>
           /\ pc /= "error"
           /\ pc = "done" =>
                  /\ nodes = {0, 1}
                  /\ adj[1] = {0} /\ adj[0] = {1}
                  /\ number_edges(Self) = 1

\* C11 witness: ScaleFreeNetwork(1, 1) has completed, its only edge added from
\* the uniform weights of step 0
C11_Witness ==
    /\ pc = "done" /\ n_nodes = 1 /\ n_edges_per_iteration = 1
    /\ op.name = "choose_add" /\ op.a = 1 /\ op.b = 0
    /\ prob_connect[0] = <<1, 2>>

\* C17: for n >= 0 and m >= 0 every growth step ends.  While step i has
\* added fewer than min(m, i + 1) edges, some key of non-zero weight is
\* neither the new node nor connected to it; under fair selection the loop
\* of the step reaches its number of edges and the constructor completes.
C17_StepsTerminate ==
    /\ [](pc = "attach" =>
              /\ m_edges = Min(n_edges_per_iteration, i + 1)
              /\ connected_count < m_edges
              /\ \E v \in Selectable(prob_connect) :
                     v /= new_node /\ ~edge_exists(Self, new_node, v))
    /\ (pc = "attach") ~> (pc /= "attach" /\ connected_count = m_edges)
    /\ (pc = "start" /\ n_nodes >= 0 /\ n_edges_per_iteration >= 0)
           ~> (pc = "done")

\* C17 witness: in a step that needs more edges, a draw has just been
\* rejected because its node is already connected to the new node
C17_Witness ==
    /\ pc = "attach" /\ op.name = "choose_skip"
    /\ connected_count >= 1 /\ connected_count < m_edges
    /\ edge_exists(Self, new_node, op.b)

\* the degree a node had when the running step's weights were computed:
\* the edges added since then all join the new node
StepDegree(v) == Cardinality(adj[v] \ {new_node})

RECURSIVE StepDegreeSum(_)
StepDegreeSum(S) ==
    IF S = {} THEN 0
    ELSE LET v == CHOOSE x \in S : TRUE
         IN  StepDegree(v) + StepDegreeSum(S \ {v})

\* C18, as stated: throughout a growth step, whatever edges the step has
\* added, the weights in use have as keys exactly the nodes other than the
\* new node, and every weight is proportional to the degree the node had
\* when the step's node had just been added (one common factor: a node that
\* had degree zero has weight zero).
C18_WeightsProportional ==
    pc = "attach" =>
        /\ DOMAIN prob_connect = nodes \ {new_node}
        /\ \A v \in DOMAIN prob_connect :
               /\ StepDegree(v) = 0 => prob_connect[v][1] = 0
               /\ \A w \in DOMAIN prob_connect :
                      prob_connect[v][1] * prob_connect[w][2] * StepDegree(w)
                          = prob_connect[w][1] * prob_connect[v][2]
                                * StepDegree(v)

\* C18, amended: throughout a growth step, whatever edges the step has
\* added, the weights in use have as keys exactly the nodes other than the
\* new node, and every weight is the degree the node had when the step's
\* node had just been added divided by the sum of those degrees, or, when
\* that sum is zero, 1 / (number of nodes) for every key.
C18_WeightsFixedInStep ==
    pc = "attach" =>
        /\ DOMAIN prob_connect = nodes \ {new_node}
        /\ \A v \in DOMAIN prob_connect :
               prob_connect[v] =
                   IF StepDegreeSum(nodes \ {new_node}) = 0
                   THEN <<1, Cardinality(nodes)>>
                   ELSE <<StepDegree(v), StepDegreeSum(nodes \ {new_node})>>

\* C18 witness: a step with non-zero degree sum has added an edge and needs
\* another one; the node it connected has a higher degree now than the one
\* its weight was computed from
C18_Witness ==
    /\ pc = "attach" /\ op.name = "choose_add"
    /\ connected_count >= 1
    /\ StepDegreeSum(nodes \ {new_node}) > 0
    /\ degree(adj, op.b) = StepDegree(op.b) + 1
    /\ prob_connect[op.b][1] = StepDegree(op.b)

\* the initial (seed) nodes that have a neighbour
ConnectedSeeds == {v \in nodes \cap (0 .. (n_nodes - 1)) : degree(adj, v) > 0}

\* C20: with n_edges_per_iteration >= 1: in a step that starts when an edge
\* exists, every node of degree zero has weight zero, and a node chosen for
\* an edge when an edge existed had non-zero degree; hence at most one of
\* the nodes 0 .. n-1 ever has a neighbour, and a completed run with n >= 1
\* leaves exactly n - 1 of them isolated.
C20_IsolatedSeeds ==
    n_edges_per_iteration >= 1 =>
        /\ (pc = "attach" /\ number_edges(Self) > 0) =>
               \A v \in DOMAIN prob_connect :
                   degree(adj, v) = 0 => prob_connect[v][1] = 0
        /\ (op.name = "choose_add" /\ number_edges(Before) > 0) =>
               degree(before.adj, op.b) > 0
        /\ Cardinality(ConnectedSeeds) <= 1
        /\ (pc = "done" /\ n_nodes >= 1) =>
               Cardinality({v \in 0 .. (n_nodes - 1) :
                               v \in nodes /\ degree(adj, v) = 0})
                   = n_nodes - 1

\* C20 witness: a completed run with three seed nodes and two edges per
\* step, two of the seed nodes isolated
C20_Witness ==
    /\ pc = "done" /\ n_nodes = 3 /\ n_edges_per_iteration = 2
    /\ Cardinality(ConnectedSeeds) = 1
    /\ number_edges(Self) = 5

(***************************************************************************)
(* Properties of tools.KS_dist (specification SpecTools).                  *)
(***************************************************************************)
\* sum of the first k entries of a list
PrefixSum(h, k) == SumSeq(SubSeq(h, 1, k))

\* C12: KS_dist raises (EmptyInputError) iff one of the two lists is empty;
\* otherwise it returns the largest absolute difference of the two lists'
\* prefix sums over the indices below the shorter length; hence
\* KS_dist(h, h) = 0, and KS_dist(a, b) and KS_dist(b, a) agree.
C12_KSDistance ==
    pc /= "start" =>
        /\ op.error \in {OK, EmptyInputError}
        /\ (op.error = EmptyInputError)
               <=> (histogram_a = << >> \/ histogram_b = << >>)
        /\ KS_dist(histogram_b, histogram_a).error = op.error
        /\ op.error = OK =>
               LET n == Min(Len(histogram_a), Len(histogram_b))
                   D(k) == Abs(PrefixSum(histogram_a, k)
                                 - PrefixSum(histogram_b, k))
               IN  /\ \E k \in 1 .. n : result = D(k)
                   /\ \A k \in 1 .. n : D(k) <= result
                   /\ histogram_a = histogram_b => result = 0
                   /\ result = KS_dist(histogram_b, histogram_a).value

\* C12 witness: lists of different lengths whose prefix sums differ, with
\* the first list's prefix sums the smaller ones
C12_Witness ==
    /\ pc = "done" /\ op.name = "KS_dist"
    /\ Len(histogram_a) < Len(histogram_b)
    /\ result = 2
    /\ PrefixSum(histogram_a, 1) < PrefixSum(histogram_b, 1)

(***************************************************************************)
(* Properties of BioGRIDReader (specification SpecReader).                 *)
(***************************************************************************)
\* the interacting pairs of taxon t among the lines read so far
PairsRead(t) ==
    {{records[k][2], records[k][3]} :
        k \in {j \in 1 .. lines_read :
                  records[j][1] = t /\ records[j][2] /= records[j][3]}}

\* C16: whatever the data lines (repeated lines and lines with swapped
\* interactors included), reading them never ends with a
\* DuplicateNodeError or DuplicateEdgeError, and the network of every taxon
\* holds each interacting pair read so far as exactly one edge.
C16_TolerantIngestion ==
    /\ op.error \notin {DuplicateNodeError, DuplicateEdgeError}
    /\ \A t \in 1 .. MaxTaxon :
           PairsRead(t) /= {} =>
               /\ t \in DOMAIN networks
               /\ EdgeSet(networks[t]) = PairsRead(t)
               /\ number_edges(networks[t]) = Cardinality(PairsRead(t))

\* the loop has raised DuplicateEdgeError on a line whose pair was read
\* before
C16_DuplicateRaised ==
    /\ pc = "error" /\ op.name = "record"
    /\ op.error = DuplicateEdgeError
    /\ lines_read = 2
    /\ {records[1][2], records[1][3]} = {records[2][2], records[2][3]}

====
